---- MODULE Spec2Model ----
(***************************************************************************)
(* The populate_geo management command (Command.handle) of salao-conecta:  *)
(* country seed, bulk import of the states, bulk import of the cities of   *)
(* every persisted state, over the Country, State and City tables of       *)
(* manager/models.py.  One behaviour is a sequence of runs of the command  *)
(* against one store and one remote registry.                              *)
(***************************************************************************)
EXTENDS Integers, Sequences, FiniteSets, TLC

\* ---------------------------------------------------------------- bounds
MaxRuns == 2            \* runs of the command in one behaviour
MaxStatesResp == 2      \* entries in the registry's states listing
MaxCitiesResp == 2      \* entries in the registry's cities listing of a state

\* ------------------------------------------------------------ value sets
CountryNames == {"Brasil", "Other"}
CountryCodes == {"BRA", "XXX"}
StateNames == {"Sao Paulo", "Rio de Janeiro"}
Abbreviations == {"SP", "RJ"}
Regions == {"Sudeste"}
CityNames == {"Campinas"}

\* A local of handle that holds no row.
None == 0

SeqsUpTo(S, n) == UNION {[1..k -> S] : k \in 0..n}

SetMax(S) == IF S = {} THEN 0 ELSE CHOOSE m \in S : \A x \in S : x <= m

\* The next value of a table's auto-increment primary key.
NextId(table) == SetMax({r.id : r \in table}) + 1

\* ------------------------------------------------ faulty variants of the code
\* Each is the definition named after it with one plausible slip; the
\* properties below are required to tell the two apart.

\* get_or_create that takes the name for the whole key: a row holding only
\* the code goes unnoticed and a second row with that code is written.
GetOrCreateNameOnly(table, name, code) ==
    LET found == {c \in table : c.name = name /\ c.code = code}
        clash == {c \in table : c.name = name}
        new   == [id |-> NextId(table), name |-> name, code |-> code]
    IN  IF found # {}
        THEN [error |-> FALSE, created |-> FALSE,
              obj |-> (CHOOSE c \in found : TRUE).id, table |-> table]
        ELSE IF clash # {}
        THEN [error |-> TRUE, created |-> FALSE, obj |-> None, table |-> table]
        ELSE [error |-> FALSE, created |-> TRUE, obj |-> new.id,
              table |-> table \cup {new}]

\* create in place of get_or_create: an existing row is an IntegrityError.
GetOrCreateNoGet(table, name, code) ==
    LET clash == {c \in table : c.name = name \/ c.code = code}
        new   == [id |-> NextId(table), name |-> name, code |-> code]
    IN  IF clash # {}
        THEN [error |-> TRUE, created |-> FALSE, obj |-> None, table |-> table]
        ELSE [error |-> FALSE, created |-> TRUE, obj |-> new.id,
              table |-> table \cup {new}]

\* State without unique=True on name.
StateConflictAbbrOnly(row, obj) == row.abbreviation = obj.abbreviation

\* City without unique_together.
CityConflictNone(row, obj) == FALSE

\* bulk_create with update_conflicts in place of ignore_conflicts: the row in
\* conflict takes the candidate's fields.
RECURSIVE BulkCreateStatesUpdate(_, _)
BulkCreateStatesUpdate(table, objs) ==
    IF objs = <<>> THEN table
    ELSE LET obj == Head(objs)
             row == [id |-> NextId(table), name |-> obj.name,
                     abbreviation |-> obj.abbreviation,
                     region |-> obj.region, country |-> obj.country]
             hit == {r \in table : r.name = obj.name \/ r.abbreviation = obj.abbreviation}
         IN  IF hit # {}
             THEN LET r == CHOOSE x \in hit : \A y \in hit : x.id <= y.id
                  IN  BulkCreateStatesUpdate(
                          (table \ hit) \cup {[row EXCEPT !.id = r.id]}, Tail(objs))
             ELSE BulkCreateStatesUpdate(table \cup {row}, Tail(objs))

\* ------------------------------------------------ Country.objects.get_or_create
\* get(name, code); if no row matches, create; an IntegrityError of the
\* create (a row holds the name or the code) is re-raised when the second
\* get finds no row either.
GetOrCreate(table, name, code) ==
    LET found == {c \in table : c.name = name /\ c.code = code}
        clash == {c \in table : c.name = name \/ c.code = code}
        new   == [id |-> NextId(table), name |-> name, code |-> code]
    IN  IF found # {}
        THEN [error |-> FALSE, created |-> FALSE,
              obj |-> (CHOOSE c \in found : TRUE).id, table |-> table]
        ELSE IF clash # {}
        THEN [error |-> TRUE, created |-> FALSE, obj |-> None, table |-> table]
        ELSE [error |-> FALSE, created |-> TRUE, obj |-> new.id,
              table |-> table \cup {new}]

\* ------------------------------------- bulk_create(objs, ignore_conflicts=True)
\* A candidate State conflicts with a row that holds its name or its
\* abbreviation.
StateConflict(row, obj) ==
    row.name = obj.name \/ row.abbreviation = obj.abbreviation

\* A candidate City conflicts with a row that holds its (name, state) pair.
CityConflict(row, obj) ==
    row.name = obj.name /\ row.state = obj.state

\* The rows are inserted in the order given; a row that conflicts with a row
\* of the table (as it is when that row's turn comes) is dropped.
RECURSIVE BulkCreateStates(_, _)
BulkCreateStates(table, objs) ==
    IF objs = <<>> THEN table
    ELSE LET obj == Head(objs)
             row == [id |-> NextId(table), name |-> obj.name,
                     abbreviation |-> obj.abbreviation,
                     region |-> obj.region, country |-> obj.country]
         IN  IF \E r \in table : StateConflict(r, obj)
             THEN BulkCreateStates(table, Tail(objs))
             ELSE BulkCreateStates(table \cup {row}, Tail(objs))

RECURSIVE BulkCreateCities(_, _)
BulkCreateCities(table, objs) ==
    IF objs = <<>> THEN table
    ELSE LET obj == Head(objs)
             row == [id |-> NextId(table), name |-> obj.name, state |-> obj.state]
         IN  IF \E r \in table : CityConflict(r, obj)
             THEN BulkCreateCities(table, Tail(objs))
             ELSE BulkCreateCities(table \cup {row}, Tail(objs))

\* bulk_create returns the list it was given, whatever was inserted.
BulkCreateResult(objs) == objs

\* --------------------------------------------------------------- state
VARIABLES
    country, state, city,       \* the tables
    statesResp, citiesResp,     \* what the registry answers when it answers
    phase,                      \* where the run is
    brazil_country,             \* local of handle: the id of the country row
    todo,                       \* State.objects.all() not yet iterated
    all_cities_to_create,       \* local of handle: the City candidates
    created_states,             \* len(created_states) as reported, -1 before
    created_cities,             \* len(created_cities) as reported, -1 before
    run,                        \* number of the current run
    fetches,                    \* requests.get calls of this run, in order
    pre,                        \* the tables when this run started
    prev                        \* outcome of the previous run

vars == <<country, state, city, statesResp, citiesResp, phase, brazil_country,
          todo, all_cities_to_create, created_states, created_cities, run,
          fetches, pre, prev>>

StatesUrl == "estados"

Snapshot == [country |-> country, state |-> state, city |-> city]

NoPrev == [ran |-> FALSE, countries |-> 0, states |-> 0, cities |-> 0, failed |-> {}]

\* The store before the first run: the empty Country table or any one row,
\* the empty State table or any one row of the country there is, no City row.
InitCountryTables ==
    {{}} \cup {{r} : r \in [id : {1}, name : CountryNames, code : CountryCodes]}

InitStateTables(c) ==
    {{}} \cup {{r} : r \in [id : {1}, name : StateNames,
                             abbreviation : Abbreviations, region : Regions,
                             country : {x.id : x \in c}]}

StateEntries == [nome : StateNames, sigla : Abbreviations, regiao : Regions]

Init ==
    /\ country \in InitCountryTables
    /\ state \in InitStateTables(country)
    /\ city = {}
    /\ statesResp \in SeqsUpTo(StateEntries, MaxStatesResp)
    /\ citiesResp \in [Abbreviations -> SeqsUpTo(CityNames, MaxCitiesResp)]
    /\ phase = "NOT_STARTED"
    /\ brazil_country = None
    /\ todo = {}
    /\ all_cities_to_create = <<>>
    /\ created_states = -1
    /\ created_cities = -1
    /\ run = 1
    /\ fetches = <<>>
    /\ pre = [country |-> country, state |-> state, city |-> city]
    /\ prev = NoPrev

\* ------------------------------------------------------------- actions
\* Phase 1: get_or_create of the country; an IntegrityError ends the run.
SeedCountry ==
    /\ phase = "NOT_STARTED"
    /\ LET r == GetOrCreate(country, "Brasil", "BRA")
       IN  /\ country' = r.table
           /\ brazil_country' = r.obj
           /\ phase' = IF r.error THEN "ABORTED" ELSE "COUNTRY_SEEDED"
    /\ UNCHANGED <<state, city, statesResp, citiesResp, todo,
                   all_cities_to_create, created_states, created_cities, run,
                   fetches, pre, prev>>

\* The candidate State rows built from the states listing.
StateObjects(states_data, c) ==
    [i \in 1..Len(states_data) |->
        [name |-> states_data[i].nome, abbreviation |-> states_data[i].sigla,
         region |-> states_data[i].regiao, country |-> c]]

\* Phase 3 over the rows the bulk insert added only.
StatesCreatedOnly(before, after) == after \ before

\* The rows phase 3 iterates: State.objects.all(), every row of the table
\* after the bulk insert, not only the rows the bulk insert added.
StatesToIterate(before, after) == after

\* Phase 2 without the return of the except branch: the run goes on to the
\* cities with no states listing.
ImportStatesNoReturn ==
    /\ phase = "COUNTRY_SEEDED"
    /\ \E ok \in BOOLEAN :
        /\ fetches' = Append(fetches, [url |-> StatesUrl, ok |-> ok])
        /\ LET state_objects == IF ok THEN StateObjects(statesResp, brazil_country)
                                      ELSE <<>>
               table == BulkCreateStates(state, state_objects)
           IN  /\ state' = table
               /\ created_states' = Len(BulkCreateResult(state_objects))
               /\ todo' = StatesToIterate(state, table)
               /\ phase' = "STATES_IMPORTED"
    /\ UNCHANGED <<country, city, statesResp, citiesResp, brazil_country,
                   all_cities_to_create, created_cities, run, pre, prev>>

\* Phase 2: the states fetch; a RequestException ends the run, otherwise the
\* candidates are bulk-inserted and the loop of phase 3 starts over all rows.
ImportStates ==
    /\ phase = "COUNTRY_SEEDED"
    /\ \E ok \in BOOLEAN :
        /\ fetches' = Append(fetches, [url |-> StatesUrl, ok |-> ok])
        /\ IF ok
           THEN LET state_objects == StateObjects(statesResp, brazil_country)
                    table == BulkCreateStates(state, state_objects)
                IN  /\ state' = table
                    /\ created_states' = Len(BulkCreateResult(state_objects))
                    /\ todo' = StatesToIterate(state, table)
                    /\ phase' = "STATES_IMPORTED"
           ELSE /\ phase' = "ABORTED"
                /\ UNCHANGED <<state, created_states, todo>>
    /\ UNCHANGED <<country, city, statesResp, citiesResp, brazil_country,
                   all_cities_to_create, created_cities, run, pre, prev>>

\* The candidate City rows built from the cities listing of one state.
CityObjects(cities_data, state_obj) ==
    [i \in 1..Len(cities_data) |-> [name |-> cities_data[i], state |-> state_obj.id]]

\* The row the iteration over State.objects.all() yields next.  The model
\* has no Meta.ordering; the rows are taken in primary-key order, the order
\* of an unordered scan of the table.  Nothing below depends on the order but
\* the ids the City rows get.
NextStateObj(rows) == CHOOSE s \in rows : \A t \in rows : s.id <= t.id

\* A failed fetch that throws away what the earlier states gave.
CitiesAfterFetchReset(acc, ok, cities_data, state_obj) ==
    IF ok THEN acc \o CityObjects(cities_data, state_obj) ELSE <<>>

\* A failed cities fetch that ends the run as a failed states fetch does.
PhaseAbortOnFailure(ok) == IF ok THEN "STATES_IMPORTED" ELSE "ABORTED"

\* The candidates after the fetch of one state: a RequestException skips the
\* state (continue) and keeps what the other states gave.
CitiesAfterFetch(acc, ok, cities_data, state_obj) ==
    IF ok THEN acc \o CityObjects(cities_data, state_obj) ELSE acc

\* Where the run is after the cities fetch of one state, failed or not.
PhaseAfterCitiesFetch(ok) == "STATES_IMPORTED"

\* Phase 3, one iteration of the loop: the cities fetch of one state.
FetchCities ==
    /\ phase = "STATES_IMPORTED"
    /\ todo # {}
    /\ LET state_obj == NextStateObj(todo)
       IN  /\ todo' = todo \ {state_obj}
           /\ \E ok \in BOOLEAN :
                /\ fetches' = Append(fetches, [url |-> state_obj.abbreviation, ok |-> ok])
                /\ all_cities_to_create' =
                      CitiesAfterFetch(all_cities_to_create, ok,
                                       citiesResp[state_obj.abbreviation], state_obj)
                /\ phase' = PhaseAfterCitiesFetch(ok)
    /\ UNCHANGED <<country, state, city, statesResp, citiesResp,
                   brazil_country, created_states, created_cities, run, pre, prev>>

\* Phase 3, after the loop: the bulk insert of the accumulated candidates.
ImportCities ==
    /\ phase = "STATES_IMPORTED"
    /\ todo = {}
    /\ city' = BulkCreateCities(city, all_cities_to_create)
    /\ created_cities' = Len(BulkCreateResult(all_cities_to_create))
    /\ phase' = "CITIES_IMPORTED"
    /\ UNCHANGED <<country, state, statesResp, citiesResp, brazil_country, todo,
                   all_cities_to_create, created_states, run, fetches, pre, prev>>

FailedUrls == {fetches[i].url : i \in {j \in 1..Len(fetches) : ~fetches[j].ok}}

\* The command is invoked again on the store the previous run left.
Rerun ==
    /\ phase \in {"CITIES_IMPORTED", "ABORTED"}
    /\ run < MaxRuns
    /\ run' = run + 1
    /\ phase' = "NOT_STARTED"
    /\ brazil_country' = None
    /\ todo' = {}
    /\ all_cities_to_create' = <<>>
    /\ created_states' = -1
    /\ created_cities' = -1
    /\ fetches' = <<>>
    /\ pre' = Snapshot
    /\ prev' = [ran |-> TRUE, countries |-> Cardinality(country),
                states |-> Cardinality(state), cities |-> Cardinality(city),
                failed |-> FailedUrls]
    /\ UNCHANGED <<country, state, city, statesResp, citiesResp>>

Next == SeedCountry \/ ImportStates \/ FetchCities \/ ImportCities \/ Rerun

Spec == Init /\ [][Next]_vars

\* The process runs on: a fetch returns or raises, the loop and the bulk insert
\* that follows it are executed.  Nothing obliges anyone to run the command again.
Fairness == /\ WF_vars(SeedCountry) /\ WF_vars(ImportStates)
            /\ WF_vars(FetchCities) /\ WF_vars(ImportCities)

\* The order of the phases does not read the cities listings: for it, every
\* state has the same one.
InitFair == Init /\ citiesResp = [a \in Abbreviations |-> <<"Campinas">>]

FairSpec == InitFair /\ [][Next]_vars /\ Fairness

\* ---------------------------------------------------------- vocabulary
Terminal == phase \in {"CITIES_IMPORTED", "ABORTED"}

\* The states fetch of this run was issued and failed.
StatesFetchFailed == Len(fetches) >= 1 /\ ~fetches[1].ok

\* The cities fetches of this run: every fetch after the first.
CityFetches == {i \in 1..Len(fetches) : i >= 2}

\* A Country row that holds the name or the code of the seed, not both.
CountryClash(table) == \E c \in table : (c.name = "Brasil") # (c.code = "BRA")

CountryPresent(table) == \E c \in table : c.name = "Brasil" /\ c.code = "BRA"

StateOf(abbr) == CHOOSE s \in state : s.abbreviation = abbr

\* Every city the registry lists for the state of this abbreviation has a row.
CitiesPersisted(abbr) ==
    \A i \in 1..Len(citiesResp[abbr]) :
        \E c \in city : c.name = citiesResp[abbr][i] /\ c.state = StateOf(abbr).id

\* ------------------------------------------------------------ properties

\* C1: a run in which no fetch fails, made after a run in which no fetch
\* failed, ends with the Country, State and City row counts the earlier run
\* ended with.
C1_Idempotent ==
    (Terminal /\ prev.ran /\ prev.failed = {} /\ FailedUrls = {}) =>
        /\ Cardinality(country) = prev.countries
        /\ Cardinality(state) = prev.states
        /\ Cardinality(city) = prev.cities

\* A second complete run over a store the first run filled with states and
\* cities, every candidate of which is now in conflict.
C1_Witness ==
    /\ phase = "CITIES_IMPORTED" /\ prev.ran
    /\ prev.failed = {} /\ FailedUrls = {}
    /\ prev.states >= 2 /\ prev.cities >= 2
    /\ created_states >= 1 /\ created_cities >= 2

\* C2: when the states fetch fails the run is aborted, no other fetch is
\* issued, and the State and City tables are as the run found them.
C2_StatesFetchFailure ==
    StatesFetchFailed =>
        /\ phase = "ABORTED"
        /\ Len(fetches) = 1
        /\ state = pre.state
        /\ city = pre.city

\* The states fetch fails in a run whose store holds a state the registry
\* lists cities for: phase 3 would have fetched and inserted them.
C2_Witness ==
    /\ StatesFetchFailed /\ phase = "ABORTED"
    /\ \E r \in state : Len(citiesResp[r.abbreviation]) > 0
    /\ \E i \in 1..Len(statesResp) :
          \A r \in state : r.name # statesResp[i].nome
                            /\ r.abbreviation # statesResp[i].sigla

\* C3: once a cities fetch is issued the run is not aborted, and at the end
\* of the run every city listed for a state whose fetch succeeded has a row,
\* while a state whose fetch failed has no row the run added.
C3_CityFailureIsolated ==
    /\ CityFetches # {} => phase # "ABORTED"
    /\ phase = "CITIES_IMPORTED" =>
          \A i \in CityFetches :
              IF fetches[i].ok
              THEN CitiesPersisted(fetches[i].url)
              ELSE \A c \in city \ pre.city : c.state # StateOf(fetches[i].url).id

\* A run ends in which one state's fetch failed, another's succeeded after
\* it and before it, and the run added the cities of the state that succeeded.
C3_Witness ==
    /\ phase = "CITIES_IMPORTED"
    /\ \E i, j \in CityFetches :
          /\ i < j
          /\ ~fetches[i].ok /\ fetches[j].ok
          /\ Len(citiesResp[fetches[i].url]) > 0
          /\ \E c \in city \ pre.city : c.state = StateOf(fetches[j].url).id

\* C4: when a Country row holds the name "Brasil" or the code "BRA" but not
\* both, the run aborts in phase 1: no fetch is issued and no table changes.
C4_CountryConflictAborts ==
    CountryClash(pre.country) =>
        /\ phase \in {"NOT_STARTED", "ABORTED"}
        /\ fetches = <<>>
        /\ country = pre.country
        /\ state = pre.state
        /\ city = pre.city

\* The run aborted on a row that holds the code only, with states to import.
C4_Witness ==
    /\ phase = "ABORTED" /\ fetches = <<>>
    /\ \E c \in pre.country : c.name # "Brasil" /\ c.code = "BRA"
    /\ Len(statesResp) > 0

\* C5: when the row ("Brasil", "BRA") exists at the start of the run, phase 1
\* writes no Country row and does not abort, the states fetch is issued, and
\* the State rows the run adds refer to that row.
C5_ExistingCountryReused ==
    (CountryPresent(pre.country) /\ phase # "NOT_STARTED") =>
        LET c == CHOOSE x \in pre.country : x.name = "Brasil" /\ x.code = "BRA"
        IN  /\ country = pre.country
            /\ brazil_country = c.id
            /\ phase = "ABORTED" => StatesFetchFailed
            /\ \A s \in state \ pre.state : s.country = c.id

\* A run finds the row, written by the run before it beside another country's
\* row, and adds states.
C5_Witness ==
    /\ CountryPresent(pre.country)
    /\ Cardinality(pre.country) = 2
    /\ brazil_country = 2
    /\ state \ pre.state # {}

\* The State candidates of this run, in the order of the listing.
Candidates == StateObjects(statesResp, brazil_country)

StatesInserted == phase \in {"STATES_IMPORTED", "CITIES_IMPORTED"}

SameStateKey(a, b) == a.name = b.name \/ a.abbreviation = b.abbreviation

SameCityKey(a, b) == a.name = b.name /\ a.state = b.state

\* The run added a row for candidate i: the row is in the table, was not
\* before the run, and no earlier candidate is the same row.
StateInserted(i) ==
    /\ \E r \in state \ pre.state :
          /\ r.name = Candidates[i].name
          /\ r.abbreviation = Candidates[i].abbreviation
          /\ r.region = Candidates[i].region
          /\ r.country = Candidates[i].country
    /\ \A j \in 1..(i - 1) :
          ~(/\ Candidates[j].name = Candidates[i].name
            /\ Candidates[j].abbreviation = Candidates[i].abbreviation)

CityInserted(i) ==
    /\ \E r \in city \ pre.city : SameCityKey(r, all_cities_to_create[i])
    /\ \A j \in 1..(i - 1) :
          ~SameCityKey(all_cities_to_create[j], all_cities_to_create[i])

\* The part of C6 common to the claim and to its amendment: the bulk inserts
\* do not end the run, a City candidate is inserted exactly when no row of the
\* store and no earlier candidate holds its (name, state) pair, and no two
\* rows share a State name, a State abbreviation or a City (name, state) pair.
ConflictSkipCommon ==
    /\ (Len(fetches) >= 1 /\ fetches[1].ok) => StatesInserted
    /\ phase = "CITIES_IMPORTED" =>
          \A i \in 1..Len(all_cities_to_create) :
              CityInserted(i) <=>
                  ~(\/ \E r \in pre.city : SameCityKey(r, all_cities_to_create[i])
                    \/ \E j \in 1..(i - 1) :
                          SameCityKey(all_cities_to_create[j], all_cities_to_create[i]))
    /\ \A a, b \in state : SameStateKey(a, b) => a = b
    /\ \A a, b \in city : SameCityKey(a, b) => a = b

\* C6 as claimed: a State candidate is inserted exactly when no row of the
\* store and no earlier candidate of the batch holds its name or its
\* abbreviation (and likewise for the cities), without error or abort, and no
\* two rows share a key.
C6_SkipOnAnyEarlierCandidate ==
    /\ ConflictSkipCommon
    /\ StatesInserted =>
          \A i \in 1..Len(Candidates) :
              StateInserted(i) <=>
                  ~(\/ \E r \in pre.state : SameStateKey(r, Candidates[i])
                    \/ \E j \in 1..(i - 1) : SameStateKey(Candidates[j], Candidates[i]))

\* C6 as amended: a State candidate is inserted exactly when no row of the
\* store and no earlier candidate of the batch that was itself inserted holds
\* its name or its abbreviation; the rest as claimed.
C6_SkipOnInsertedCandidate ==
    /\ ConflictSkipCommon
    /\ StatesInserted =>
          \A i \in 1..Len(Candidates) :
              StateInserted(i) <=>
                  ~(\/ \E r \in pre.state : SameStateKey(r, Candidates[i])
                    \/ \E j \in 1..(i - 1) :
                          StateInserted(j) /\ SameStateKey(Candidates[j], Candidates[i]))

\* A run ends in which a State candidate was inserted although an earlier
\* candidate, itself skipped, holds its abbreviation, and in which the second
\* of two equal City candidates was skipped.
C6_Witness ==
    /\ phase = "CITIES_IMPORTED"
    /\ \E j \in 1..Len(Candidates) : \E i \in 1..(j - 1) :
          /\ StateInserted(j) /\ ~StateInserted(i)
          /\ Candidates[i].abbreviation = Candidates[j].abbreviation
    /\ \E j \in 1..Len(all_cities_to_create) : \E i \in 1..(j - 1) :
          /\ SameCityKey(all_cities_to_create[i], all_cities_to_create[j])
          /\ CityInserted(i)

\* C7: every Country, State and City row the run found is in its table, with
\* the same fields, at every point of the run.
C7_InsertOnly ==
    /\ pre.country \subseteq country
    /\ pre.state \subseteq state
    /\ pre.city \subseteq city

\* A run ends that added states and cities and had a candidate with the name
\* of an existing State row and another abbreviation.
C7_Witness ==
    /\ phase = "CITIES_IMPORTED"
    /\ state # pre.state /\ city # pre.city
    /\ \E r \in pre.state : \E i \in 1..Len(Candidates) :
          /\ r.name = Candidates[i].name
          /\ r.abbreviation # Candidates[i].abbreviation

\* Phase 1 aborts exactly on a Country row in conflict; phase 2 aborts exactly
\* on a failed states fetch; phase 3 does not leave STATES_IMPORTED but for
\* CITIES_IMPORTED; a finished run is followed only by the start of the next.
PhaseStep ==
    /\ phase = "NOT_STARTED" =>
          /\ phase' \in {"COUNTRY_SEEDED", "ABORTED"}
          /\ phase' = "ABORTED" <=> CountryClash(country)
    /\ phase = "COUNTRY_SEEDED" =>
          /\ phase' \in {"STATES_IMPORTED", "ABORTED"}
          /\ phase' = "ABORTED" <=> ~fetches'[Len(fetches')].ok
    /\ phase = "STATES_IMPORTED" => phase' \in {"STATES_IMPORTED", "CITIES_IMPORTED"}
    /\ phase \in {"CITIES_IMPORTED", "ABORTED"} =>
          phase' = "NOT_STARTED" /\ run' = run + 1

\* C8: a run moves NOT_STARTED, COUNTRY_SEEDED, STATES_IMPORTED,
\* CITIES_IMPORTED in this order; it is aborted only from NOT_STARTED, on a
\* country conflict, and from COUNTRY_SEEDED, on a failed states fetch; from
\* STATES_IMPORTED it reaches CITIES_IMPORTED whatever the cities fetches do.
C8_PhaseOrder ==
    /\ [][PhaseStep]_vars
    /\ (phase = "STATES_IMPORTED") ~> (phase = "CITIES_IMPORTED")

\* A run reached CITIES_IMPORTED although every cities fetch of it failed.
C8_Witness ==
    /\ phase = "CITIES_IMPORTED"
    /\ Cardinality(CityFetches) >= 2
    /\ \A i \in CityFetches : ~fetches[i].ok

\* C9: phase 3 issues one cities fetch, by abbreviation, for each State row
\* of the table as phase 2 left it, and no other; a state whose fetch failed
\* in the previous run and succeeds in this one has its cities at the end.
C9_EveryPersistedStateFetched ==
    /\ phase = "STATES_IMPORTED" =>
          Cardinality(CityFetches) + Cardinality(todo) = Cardinality(state)
    /\ phase = "CITIES_IMPORTED" =>
          /\ Cardinality(CityFetches) = Cardinality(state)
          /\ \A s \in state :
                Cardinality({i \in CityFetches : fetches[i].url = s.abbreviation}) = 1
          /\ \A i \in CityFetches :
                (prev.ran /\ fetches[i].ok /\ fetches[i].url \in prev.failed)
                    => CitiesPersisted(fetches[i].url)

\* The second run ends having fetched and inserted the cities of a state that
\* was in the store before the first run, is not in the states listing, and
\* whose fetch failed in the first run.
C9_Witness ==
    /\ phase = "CITIES_IMPORTED" /\ run = 2
    /\ \E s \in pre.state :
          /\ \A i \in 1..Len(statesResp) : statesResp[i].sigla # s.abbreviation
          /\ s.abbreviation \in prev.failed
          /\ \E i \in CityFetches : fetches[i].url = s.abbreviation /\ fetches[i].ok
          /\ \E c \in city \ pre.city : c.state = s.id

\* C10: the count each phase reports is the number of rows the phase added:
\* the table's row count after the bulk insert minus its count before.
C10_ReportedCountIsRowsAdded ==
    /\ StatesInserted =>
          created_states = Cardinality(state) - Cardinality(pre.state)
    /\ phase = "CITIES_IMPORTED" =>
          created_cities = Cardinality(city) - Cardinality(pre.city)
====
